---- MODULE Spec2Model ----
(***************************************************************************)
(* The edit-history state machine of the photo editor (EditorView) and    *)
(* the start screen that feeds it (StartScreen).                          *)
(*                                                                         *)
(* React state is modelled as the variables below.  A handler closes over *)
(* the values of the render it was created in: an asynchronous handler    *)
(* that goes on after an await still sees the history and historyIndex of *)
(* the render in which it was started, so every call in flight carries    *)
(* those captured values (capHistory, capIndex).  State setters are       *)
(* stable and always act on the live component state.                     *)
(***************************************************************************)
EXTENDS Integers, Sequences, FiniteSets, TLC

\* ------------------------------------------------------------------ bounds

\* Longest history a behaviour may build.
MaxVersions == 4
\* Number of remote calls / canvas callbacks that may be in flight at once.
MaxCalls == 2
\* Number of remote calls and canvas callbacks a behaviour may start in all.
MaxIssued == 3

\* ------------------------------------------------------- program constants

MAX_FILE_SIZE_MB == 15
MAX_FILE_SIZE_BYTES == MAX_FILE_SIZE_MB * 1024 * 1024

TABS == {"adjust", "filters", "texture", "erase", "crop", "fusion", "retouch"}

\* ------------------------------------------------------------ input domains

\* Prompts a panel can hand to its apply handler ("" is the empty field).
Prompts == {"sepia"}
\* Hotspots a click on the image can produce; <<>> stands for null.
Hotspots == {<<10, 20>>}
NoHotspot == <<>>
\* Auxiliary image lists the fusion panel can hand over.
SourceImageLists == {<<"aux1">>}
\* Sizes of the files a user can select.
FileSizes == {MAX_FILE_SIZE_BYTES, MAX_FILE_SIZE_BYTES + 1}

\* error / generationError: "null" stands for null, otherwise the message.
NoError == "null"
\* lastAction null.
NoAction == [type |-> "null"]
\* history[historyIndex] when the index is out of range.
Undefined == 0

\* The data URLs a remote call can resolve to.  callImageEditingModel builds
\* `data:${mimeType};base64,${data}`: the comma is always there, the MIME
\* type may be empty and the payload may fail to decode.
DataUrls ==
    { [comma |-> TRUE, mime |-> "image/png", b64 |-> TRUE],
      [comma |-> TRUE, mime |-> "", b64 |-> TRUE],
      [comma |-> TRUE, mime |-> "image/png", b64 |-> FALSE] }

\* What a remote call can complete with: a data URL, or a rejection.
Responses == {[ok |-> TRUE, url |-> u] : u \in DataUrls} \cup {[ok |-> FALSE]}

\* What canvas.toBlob / getCroppedImg can deliver.
CropOutcomes == {"blob", "null", "noctx"}

\* null / undefined of a stored or passed string.
Absent == "null"
\* The API keys a user can type or a build can carry; " k1 " has blanks
\* around it, " " is blank and "" is the empty field.
ApiKeys == {"k1", "k2"}
TypedApiKeys == ApiKeys \cup {"", " ", " k1 "}
\* The values of process.env.API_KEY.
EnvApiKeys == {Absent, "env-key"}
\* The base URLs a user can type.
BaseUrls == {"u1", "u2"}
\* No client / no configuration (null).
NoInstance == [apiKey |-> "none", baseUrl |-> "none"]
NoConfig == [apiKey |-> "none", baseUrl |-> "none"]
\* The configurations a caller hands to the constructor of the proxy:
\* { apiKey, httpOptions: { baseUrl } }.
CallerConfigs == {[apiKey |-> k, baseUrl |-> u] : k \in {Absent, "env-key"}, u \in {Absent, "u0"}}

\* The pages of the App and the templates of the library.
Views == {"editor", "template-library", "template-display", "past-forward"}
Templates == {"template1"}
NoTemplate == "null"

\* ------------------------------------------------------------------- state

VARIABLES
    history,          \* EditorView: File[] (version ids)
    historyIndex,     \* EditorView: cursor, -1 when empty
    isLoading,        \* EditorView: Pending Operation Flag
    error,            \* EditorView: displayed error or NoError
    activeTab,        \* EditorView: selected tab
    lastAction,       \* EditorView: Last-Action Memory
    completedCrop,    \* EditorView: a crop selection with width and height exists
    retouchPrompt,    \* EditorView: retouch text field
    retouchHotspot,   \* EditorView: selected hotspot or NoHotspot
    isGenerating,     \* StartScreen: text-to-image call in flight
    generationError,  \* StartScreen: its error or NoError
    calls,            \* calls and canvas callbacks in flight, in issue order
    issued,           \* number of calls and canvas callbacks started so far
    lastActionInput   \* history variable: currentImageFile when lastAction was recorded

\* The API configuration: the key store of geminiService, the store and the
\* cache of the api-config patch, and the state of its panel.
VARIABLES
    envApiKey,        \* process.env.API_KEY, fixed by the build
    customApiKey,     \* localStorage['gemini-custom-api-key']
    aiInstance,       \* geminiService: the client kept by getGoogleAI
    userApiKey,       \* localStorage['gemini_api_key']
    userBaseUrl,      \* localStorage['gemini_base_url']
    cachedInstance,   \* apiKeyManager: the client kept by the proxy constructor
    lastConfig,       \* apiKeyManager: the configuration cachedInstance was built for
    config,           \* useApiConfig: the hook's copy of the stored configuration
    localConfig,      \* ApiConfigPanel: the two text fields
    isPanelOpen,      \* FloatingConfigButton: the panel is shown
    client,           \* the client handed out last, by getGoogleAI or by the proxy
    testConfig        \* the configuration testApiConnection built its client with last

configVars == <<envApiKey, customApiKey, aiInstance, userApiKey, userBaseUrl,
                cachedInstance, lastConfig, config, localConfig, isPanelOpen,
                client, testConfig>>

\* The App shell around the editor.
VARIABLES
    activeView,           \* App: the page MainContent shows
    isSettingsModalOpen,  \* App
    isHelpModalOpen,      \* App
    notification,         \* App: the save notification is shown
    editorInitialState,   \* App: the template handed to EditorView, or NoTemplate
    selectedTemplate,     \* App: the template shown by TemplateDisplayPage
    isTemplateLoading,    \* EditorView: a template is being loaded
    closeTimer            \* SettingsModal: its setTimeout(onClose) is pending

appVars == <<activeView, isSettingsModalOpen, isHelpModalOpen, notification,
             editorInitialState, selectedTemplate, isTemplateLoading, closeTimer>>

\* The state of the editor and of its calls in flight.
sessionVars == <<history, historyIndex, isLoading, error, activeTab, lastAction,
                 completedCrop, retouchPrompt, retouchHotspot, isGenerating,
                 generationError, calls, issued, lastActionInput>>

vars == <<sessionVars, configVars, appVars>>

\* What the editor's own handlers never touch.
otherVars == <<configVars, appVars>>

editorVars == <<history, historyIndex, isLoading, error, activeTab, lastAction,
                completedCrop, retouchPrompt, retouchHotspot, lastActionInput>>

\* ----------------------------------------------------------------- helpers

\* history[i] with a JavaScript (0-based) index; Undefined out of range.
At(h, i) == IF i >= 0 /\ i < Len(h) THEN h[i + 1] ELSE Undefined

currentImageFile == At(history, historyIndex)
originalImageFile == At(history, 0)

\* history.slice(0, n)
Slice(h, n) == SubSeq(h, 1, IF n < 0 THEN 0 ELSE IF n > Len(h) THEN Len(h) ELSE n)

\* The sequence s without its i-th element.
RemoveAt(s, i) == SubSeq(s, 1, i - 1) \o SubSeq(s, i + 1, Len(s))

\* The File objects still referenced: by the history, by a closure in flight
\* or by the record of the last action's input.
Referenced ==
    {history[k] : k \in 1..Len(history)}
        \cup UNION {{calls[c].capHistory[k] : k \in 1..Len(calls[c].capHistory)}
                        : c \in 1..Len(calls)}
        \cup {lastActionInput}

\* A File object that is none of the referenced ones (new File(...)).
NewFile == CHOOSE n \in 1..(MaxVersions * (MaxCalls + 1) + 1) :
               /\ n \notin Referenced
               /\ \A m \in 1..(n - 1) : m \in Referenced

\* EditorView renders StartScreen when there is no current image.
StartScreenShown(h, i) == At(h, i) = Undefined

\* dataURLtoFile: the thrown message, or "file" when a File is built.
dataURLtoFile(u) ==
    IF ~u.comma THEN "Invalid data URL"
    ELSE IF u.mime = "" THEN "Could not parse MIME type from data URL"
    ELSE IF ~u.b64 THEN "atob failed"
    ELSE "file"

\* The calls in flight after the render that shows history h at cursor i: a
\* text-to-image call whose StartScreen has been unmounted keeps running, but
\* its component state (isGenerating, generationError) is gone.  The field
\* live of a call says that what issued it is still there: for a
\* text-to-image call its StartScreen, for an edit or a crop the editing
\* session (no start-over and no new base image since), for a suggestions
\* call the AdjustmentPanel that issued it (unmounted with the editor).
AfterRender(cs, h, i) ==
    [k \in 1..Len(cs) |->
        IF \/ cs[k].kind = "t2i" /\ ~StartScreenShown(h, i)
           \/ cs[k].kind = "suggest" /\ StartScreenShown(h, i)
        THEN [cs[k] EXCEPT !.live = FALSE]
        ELSE cs[k]]

\* The calls in flight after the tab `tab` is selected: the AdjustmentPanel
\* is rendered for the adjust tab only.
AfterTab(cs, tab) ==
    [k \in 1..Len(cs) |->
        IF cs[k].kind = "suggest" /\ tab # "adjust"
        THEN [cs[k] EXCEPT !.live = FALSE]
        ELSE cs[k]]

\* The calls in flight after a start-over or a new base image.
EndSession(cs) ==
    [k \in 1..Len(cs) |->
        IF cs[k].kind \in {"edit", "crop"} THEN [cs[k] EXCEPT !.live = FALSE]
        ELSE cs[k]]

\* StartScreen state after that render: a fresh StartScreen starts idle.
ScreenState(h, i, gen, gerr) ==
    IF StartScreenShown(history, historyIndex) /\ StartScreenShown(h, i)
    THEN <<gen, gerr>>
    ELSE <<FALSE, NoError>>

\* The re-render that follows a state change: what happens to the calls in
\* flight (given as cs) and to StartScreen's own state (given as gen, gerr).
Render(cs, gen, gerr) ==
    /\ calls' = AfterRender(cs, history', historyIndex')
    /\ isGenerating' = ScreenState(history', historyIndex', gen, gerr)[1]
    /\ generationError' = ScreenState(history', historyIndex', gen, gerr)[2]

\* ------------------------------------------------ Version History Store

\* updateHistory, evaluated in a closure that holds history h and cursor i.
updateHistory(h, i, newFile) ==
    /\ history' = Append(Slice(h, i + 1), newFile)
    /\ historyIndex' = Len(history') - 1
    /\ completedCrop' = FALSE
    /\ retouchHotspot' = NoHotspot

\* handleLocalFileSelect that keeps the recorded action and the error.
handleLocalFileSelect_KeepsAction(size) ==
    IF size = 0
    THEN UNCHANGED vars
    ELSE IF size > MAX_FILE_SIZE_BYTES
    THEN /\ error' = "file too large"
         /\ UNCHANGED <<history, historyIndex, isLoading, activeTab, lastAction,
                        completedCrop, retouchPrompt, retouchHotspot, isGenerating,
                        generationError, calls, issued, lastActionInput, otherVars>>
    ELSE /\ history' = <<NewFile>>
         /\ historyIndex' = 0
         /\ activeTab' = "adjust"
         /\ Render(EndSession(calls), isGenerating, generationError)
         /\ UNCHANGED <<isLoading, completedCrop, retouchPrompt, retouchHotspot, issued,
                        error, lastAction, lastActionInput, otherVars>>

\* handleLocalFileSelect that rejects a file of the limit's size as well.
handleLocalFileSelect_RejectsAtLimit(size) ==
    IF size = 0
    THEN UNCHANGED vars
    ELSE IF size >= MAX_FILE_SIZE_BYTES
    THEN /\ error' = "file too large"
         /\ UNCHANGED <<history, historyIndex, isLoading, activeTab, lastAction,
                        completedCrop, retouchPrompt, retouchHotspot, isGenerating,
                        generationError, calls, issued, lastActionInput, otherVars>>
    ELSE /\ history' = <<NewFile>>
         /\ historyIndex' = 0
         /\ activeTab' = "adjust"
         /\ error' = NoError
         /\ lastAction' = NoAction
         /\ lastActionInput' = Undefined
         /\ Render(EndSession(calls), isGenerating, generationError)
         /\ UNCHANGED <<isLoading, completedCrop, retouchPrompt, retouchHotspot, issued, otherVars>>

\* handleLocalFileSelect; size = 0 stands for files null or empty.
handleLocalFileSelect(size) ==
    IF size = 0
    THEN UNCHANGED vars
    ELSE IF size > MAX_FILE_SIZE_BYTES
    THEN /\ error' = "file too large"
         /\ UNCHANGED <<history, historyIndex, isLoading, activeTab, lastAction,
                        completedCrop, retouchPrompt, retouchHotspot, isGenerating,
                        generationError, calls, issued, lastActionInput, otherVars>>
    ELSE /\ history' = <<NewFile>>
         /\ historyIndex' = 0
         /\ activeTab' = "adjust"
         /\ error' = NoError
         /\ lastAction' = NoAction
         /\ lastActionInput' = Undefined
         /\ Render(EndSession(calls), isGenerating, generationError)
         /\ UNCHANGED <<isLoading, completedCrop, retouchPrompt, retouchHotspot, issued, otherVars>>

\* handleLocalImageGenerated: the EditorView part of a text-to-image result.
handleLocalImageGenerated(dataUrl) ==
    IF dataURLtoFile(dataUrl) = "file"
    THEN /\ history' = <<NewFile>>
         /\ historyIndex' = 0
         /\ activeTab' = "adjust"
         /\ error' = NoError
         /\ lastAction' = NoAction
         /\ lastActionInput' = Undefined
         /\ isLoading' = FALSE
         /\ UNCHANGED <<completedCrop, retouchPrompt, retouchHotspot>>
    ELSE /\ error' = dataURLtoFile(dataUrl)
         /\ isLoading' = FALSE
         /\ UNCHANGED <<history, historyIndex, activeTab, lastAction, lastActionInput,
                        completedCrop, retouchPrompt, retouchHotspot>>

\* handleUndo without its test of the cursor.
handleUndo_NoFloor ==
    /\ historyIndex' = historyIndex - 1
    /\ UNCHANGED <<history, isLoading, error, activeTab, lastAction,
                   completedCrop, retouchPrompt, retouchHotspot, isGenerating,
                   generationError, calls, issued, lastActionInput, otherVars>>


\* handleUndo that also drops the versions after the new cursor.
handleUndo_Truncates ==
    IF historyIndex > 0
    THEN /\ historyIndex' = historyIndex - 1
         /\ history' = Slice(history, historyIndex)
         /\ UNCHANGED <<isLoading, error, activeTab, lastAction,
                        completedCrop, retouchPrompt, retouchHotspot, isGenerating,
                        generationError, calls, issued, lastActionInput, otherVars>>
    ELSE UNCHANGED vars


handleUndo ==
    IF historyIndex > 0
    THEN /\ historyIndex' = historyIndex - 1
         /\ UNCHANGED <<history, isLoading, error, activeTab, lastAction,
                        completedCrop, retouchPrompt, retouchHotspot, isGenerating,
                        generationError, calls, issued, lastActionInput, otherVars>>
    ELSE UNCHANGED vars

\* handleRedo that jumps to the last version instead of moving one position.
handleRedo_ToEnd ==
    IF historyIndex < Len(history) - 1
    THEN /\ historyIndex' = Len(history) - 1
         /\ UNCHANGED <<history, isLoading, error, activeTab, lastAction,
                        completedCrop, retouchPrompt, retouchHotspot, isGenerating,
                        generationError, calls, issued, lastActionInput, otherVars>>
    ELSE UNCHANGED vars


handleRedo ==
    IF historyIndex < Len(history) - 1
    THEN /\ historyIndex' = historyIndex + 1
         /\ UNCHANGED <<history, isLoading, error, activeTab, lastAction,
                        completedCrop, retouchPrompt, retouchHotspot, isGenerating,
                        generationError, calls, issued, lastActionInput, otherVars>>
    ELSE UNCHANGED vars

\* handleStartOver that forgets to clear lastAction.
handleStartOver_KeepsAction ==
    /\ history' = <<>>
    /\ historyIndex' = -1
    /\ completedCrop' = FALSE
    /\ retouchHotspot' = NoHotspot
    /\ retouchPrompt' = ""
    /\ Render(EndSession(calls), isGenerating, generationError)
    /\ UNCHANGED <<lastAction, lastActionInput, isLoading, error, activeTab, issued, otherVars>>


handleStartOver ==
    /\ history' = <<>>
    /\ historyIndex' = -1
    /\ lastAction' = NoAction
    /\ lastActionInput' = Undefined
    /\ completedCrop' = FALSE
    /\ retouchHotspot' = NoHotspot
    /\ retouchPrompt' = ""
    /\ Render(EndSession(calls), isGenerating, generationError)
    /\ UNCHANGED <<isLoading, error, activeTab, issued, otherVars>>

\* --------------------------------------------------------- Edit Orchestrator

\* runGenerativeTask up to its await: the flag, the error and the hotspot are
\* reset and the task is started on `image`.  The call keeps the closure's
\* history and historyIndex for the updateHistory that follows the await;
\* prevAction and startIndex record lastAction before the request and the
\* cursor the request leaves behind, seq is the number of the request.
runGenerativeTask(image, action, prevAction, startIndex) ==
    /\ Len(calls) < MaxCalls /\ issued < MaxIssued
    /\ issued' = issued + 1
    /\ isLoading' = TRUE
    /\ error' = NoError
    /\ retouchHotspot' = NoHotspot
    /\ calls' = Append(calls, [kind |-> "edit", image |-> image, action |-> action,
                               capHistory |-> history, capIndex |-> historyIndex,
                               prevAction |-> prevAction, startIndex |-> startIndex,
                               live |-> TRUE, seq |-> issued + 1])

\* An apply handler that starts the task without recording it in lastAction.
ApplyAction_NoRecord(action) ==
    /\ runGenerativeTask(currentImageFile, action, lastAction, historyIndex)
    /\ UNCHANGED <<history, historyIndex, activeTab, completedCrop, retouchPrompt,
                   isGenerating, generationError, lastAction, lastActionInput, otherVars>>

\* handleApplyFilter, handleApplyAdjustment, handleApplyTexture,
\* handleApplyFusion and handleRemoveBackground: record the action, run it on
\* the current image.
ApplyAction(action) ==
    /\ lastAction' = action
    /\ lastActionInput' = currentImageFile
    /\ runGenerativeTask(currentImageFile, action, lastAction, historyIndex)
    /\ UNCHANGED <<history, historyIndex, activeTab, completedCrop, retouchPrompt,
                   isGenerating, generationError, otherVars>>

handleApplyFilter(prompt) == ApplyAction([type |-> "filters", prompt |-> prompt])

handleApplyAdjustment(prompt) == ApplyAction([type |-> "adjust", prompt |-> prompt])

handleApplyTexture(prompt) == ApplyAction([type |-> "texture", prompt |-> prompt])

handleApplyFusion(sourceImages, prompt) ==
    ApplyAction([type |-> "fusion", prompt |-> prompt, sourceImages |-> sourceImages])

handleRemoveBackground == ApplyAction([type |-> "erase"])

handleApplyRetouch ==
    IF retouchPrompt # "" /\ retouchHotspot # NoHotspot
    THEN /\ lastAction' = [type |-> "retouch", prompt |-> retouchPrompt,
                           hotspot |-> retouchHotspot]
         /\ lastActionInput' = currentImageFile
         /\ runGenerativeTask(currentImageFile, lastAction', lastAction, historyIndex)
         /\ retouchPrompt' = ""
         /\ UNCHANGED <<history, historyIndex, activeTab, completedCrop,
                        isGenerating, generationError, otherVars>>
    ELSE UNCHANGED vars

\* handleRegenerate without its test of the cursor.
handleRegenerate_NoCursorTest ==
    IF lastAction = NoAction \/ isLoading
    THEN UNCHANGED vars
    ELSE /\ historyIndex' = historyIndex - 1
         /\ runGenerativeTask(At(history, historyIndex - 1), lastAction, lastAction,
                              historyIndex - 1)
         /\ UNCHANGED <<history, activeTab, lastAction, lastActionInput, completedCrop,
                        retouchPrompt, isGenerating, generationError, otherVars>>


handleRegenerate ==
    IF lastAction = NoAction \/ historyIndex < 1 \/ isLoading
    THEN UNCHANGED vars
    ELSE /\ historyIndex' = historyIndex - 1
         /\ runGenerativeTask(At(history, historyIndex - 1), lastAction, lastAction,
                              historyIndex - 1)
         /\ UNCHANGED <<history, activeTab, lastAction, lastActionInput, completedCrop,
                        retouchPrompt, isGenerating, generationError, otherVars>>

\* handleApplyCrop up to its await of getCroppedImg; imgRef.current is the
\* <img> that is rendered when there is a current image.
handleApplyCrop ==
    IF completedCrop /\ currentImageFile # Undefined
    THEN /\ Len(calls) < MaxCalls /\ issued < MaxIssued
         /\ issued' = issued + 1
         /\ isLoading' = TRUE
         /\ error' = NoError
         /\ calls' = Append(calls, [kind |-> "crop", image |-> currentImageFile,
                                    action |-> NoAction,
                                    capHistory |-> history, capIndex |-> historyIndex,
                                    prevAction |-> lastAction, startIndex |-> historyIndex,
                                    live |-> TRUE, seq |-> issued + 1])
         /\ UNCHANGED <<history, historyIndex, activeTab, lastAction, lastActionInput,
                        completedCrop, retouchPrompt, retouchHotspot, isGenerating,
                        generationError, otherVars>>
    ELSE UNCHANGED vars

handleImageClick(hotspot) ==
    IF activeTab # "retouch" \/ currentImageFile = Undefined
    THEN UNCHANGED vars
    ELSE /\ retouchHotspot' = hotspot
         /\ UNCHANGED <<history, historyIndex, isLoading, error, activeTab, lastAction,
                        completedCrop, retouchPrompt, isGenerating, generationError,
                        calls, issued, lastActionInput, otherVars>>

\* Tab buttons (onClick of the TABS.map buttons).
selectTab(tab) ==
    IF isLoading
    THEN UNCHANGED vars
    ELSE /\ activeTab' = tab
         /\ retouchHotspot' = NoHotspot
         /\ calls' = AfterTab(calls, tab)
         /\ UNCHANGED <<history, historyIndex, isLoading, error, lastAction,
                        completedCrop, retouchPrompt, isGenerating, generationError,
                        issued, lastActionInput, otherVars>>

\* onChange of the retouch text field.
setRetouchPrompt(prompt) ==
    /\ retouchPrompt' = prompt
    /\ UNCHANGED <<history, historyIndex, isLoading, error, activeTab, lastAction,
                   completedCrop, retouchHotspot, isGenerating, generationError,
                   calls, issued, lastActionInput, otherVars>>

\* onComplete of ReactCrop with a selection that has width and height.
setCompletedCrop ==
    /\ completedCrop' = TRUE
    /\ UNCHANGED <<history, historyIndex, isLoading, error, activeTab, lastAction,
                   retouchPrompt, retouchHotspot, isGenerating, generationError,
                   calls, issued, lastActionInput, otherVars>>

\* ------------------------------------------------------------ AdjustmentPanel

\* AdjustmentPanel's isSuggesting: its own suggestions call is in flight.
isSuggesting == \E k \in 1..Len(calls) : calls[k].kind = "suggest" /\ calls[k].live

\* AdjustmentPanel.handleGetSuggestions up to its await of
\* generateCreativeSuggestions; onError is EditorView's setError, and
\* onError('') leaves the empty string, which shows no error.
handleGetSuggestions ==
    /\ Len(calls) < MaxCalls /\ issued < MaxIssued
    /\ issued' = issued + 1
    /\ error' = ""
    /\ calls' = Append(calls, [kind |-> "suggest", image |-> currentImageFile,
                               action |-> NoAction,
                               capHistory |-> <<>>, capIndex |-> -1,
                               prevAction |-> NoAction, startIndex |-> -1,
                               live |-> TRUE, seq |-> issued + 1])
    /\ UNCHANGED <<history, historyIndex, isLoading, activeTab, lastAction,
                   completedCrop, retouchPrompt, retouchHotspot, isGenerating,
                   generationError, lastActionInput, otherVars>>

\* The rest of handleGetSuggestions: the presets are the panel's own state;
\* a rejection goes to onError, whether or not the panel is still there.
SuggestReturns(i, ok) ==
    /\ i \in 1..Len(calls)
    /\ calls[i].kind = "suggest"
    /\ calls' = RemoveAt(calls, i)
    /\ error' = (IF ok THEN error ELSE "suggestions failed")
    /\ UNCHANGED <<history, historyIndex, isLoading, activeTab, lastAction,
                   completedCrop, retouchPrompt, retouchHotspot, isGenerating,
                   generationError, issued, lastActionInput, otherVars>>

\* ---------------------------------------------------------------- StartScreen

\* StartScreen.handleGenerate up to its await of generateImageFromText.
handleGenerate(prompt) ==
    IF prompt = ""
    THEN /\ generationError' = "empty prompt"
         /\ UNCHANGED <<editorVars, isGenerating, calls, issued, otherVars>>
    ELSE /\ Len(calls) < MaxCalls /\ issued < MaxIssued
         /\ issued' = issued + 1
         /\ isGenerating' = TRUE
         /\ generationError' = NoError
         /\ calls' = Append(calls, [kind |-> "t2i", image |-> Undefined,
                                    action |-> NoAction,
                                    capHistory |-> <<>>, capIndex |-> -1,
                                    prevAction |-> NoAction, startIndex |-> -1,
                                    live |-> TRUE, seq |-> issued + 1])
         /\ UNCHANGED <<editorVars, otherVars>>

\* ------------------------------------------------------------- completions

\* runGenerativeTask whose catch starts the task again instead of giving up.
EditReturns_Retries(i, r) ==
    /\ i \in 1..Len(calls)
    /\ calls[i].kind = "edit"
    /\ ~r.ok
    /\ issued < MaxIssued
    /\ issued' = issued + 1
    /\ UNCHANGED <<editorVars, isGenerating, generationError, calls, otherVars>>

\* The rest of runGenerativeTask, after its await: the i-th call in flight
\* completes with response r.  A task started without an image cannot read
\* its file and rejects.
EditReturns(i, r) ==
    /\ i \in 1..Len(calls)
    /\ calls[i].kind = "edit"
    /\ r.ok => calls[i].image # Undefined
    /\ LET c == calls[i]
           rest == RemoveAt(calls, i)
       IN  IF r.ok /\ dataURLtoFile(r.url) = "file"
           THEN /\ c.capIndex + 1 < MaxVersions
                /\ updateHistory(c.capHistory, c.capIndex, NewFile)
                /\ isLoading' = FALSE
                /\ Render(rest, isGenerating, generationError)
                /\ UNCHANGED <<error, activeTab, lastAction, retouchPrompt,
                               lastActionInput, issued, otherVars>>
           ELSE /\ error' = (IF r.ok THEN dataURLtoFile(r.url) ELSE "remote failure")
                /\ isLoading' = FALSE
                /\ calls' = rest
                /\ UNCHANGED <<history, historyIndex, activeTab, lastAction,
                               completedCrop, retouchPrompt, retouchHotspot,
                               isGenerating, generationError, lastActionInput, issued, otherVars>>

\* handleApplyCrop whose success path does not clear lastAction.
CropCallback_KeepsAction(i, outcome) ==
    /\ i \in 1..Len(calls)
    /\ calls[i].kind = "crop"
    /\ outcome = "blob"
    /\ calls[i].capIndex + 1 < MaxVersions
    /\ updateHistory(calls[i].capHistory, calls[i].capIndex, NewFile)
    /\ isLoading' = FALSE
    /\ Render(RemoveAt(calls, i), isGenerating, generationError)
    /\ UNCHANGED <<error, activeTab, retouchPrompt, issued, lastAction, lastActionInput, otherVars>>

\* The rest of handleApplyCrop: getCroppedImg settles, or toBlob hands its
\* callback null and the promise is never settled.
CropCallback(i, outcome) ==
    /\ i \in 1..Len(calls)
    /\ calls[i].kind = "crop"
    /\ LET c == calls[i]
           rest == RemoveAt(calls, i)
       IN  CASE outcome = "blob" ->
                /\ c.capIndex + 1 < MaxVersions
                /\ updateHistory(c.capHistory, c.capIndex, NewFile)
                /\ lastAction' = NoAction
                /\ lastActionInput' = Undefined
                /\ isLoading' = FALSE
                /\ Render(rest, isGenerating, generationError)
                /\ UNCHANGED <<error, activeTab, retouchPrompt, issued, otherVars>>
            [] outcome = "noctx" ->
                /\ error' = "Failed to get canvas context"
                /\ isLoading' = FALSE
                /\ calls' = rest
                /\ UNCHANGED <<history, historyIndex, activeTab, lastAction,
                               completedCrop, retouchPrompt, retouchHotspot,
                               isGenerating, generationError, lastActionInput, issued, otherVars>>
            [] outcome = "null" ->
                /\ calls' = rest
                /\ UNCHANGED <<editorVars, isGenerating, generationError, issued, otherVars>>

\* The rest of StartScreen.handleGenerate: the i-th call in flight, a
\* text-to-image call, completes with response r.  The StartScreen setters
\* act only while that StartScreen is still mounted (live).
\* generateImageFromText builds `data:image/png;base64,${bytes}`: the MIME
\* type is always there.
GenerateReturns(i, r) ==
    /\ i \in 1..Len(calls)
    /\ calls[i].kind = "t2i"
    /\ r.ok => r.url.mime = "image/png"
    /\ LET c == calls[i]
           rest == RemoveAt(calls, i)
       IN  IF r.ok
           THEN /\ handleLocalImageGenerated(r.url)
                /\ Render(IF dataURLtoFile(r.url) = "file" THEN EndSession(rest) ELSE rest,
                          IF c.live THEN FALSE ELSE isGenerating, generationError)
                /\ UNCHANGED <<issued, otherVars>>
           ELSE /\ calls' = rest
                /\ isGenerating' = (IF c.live THEN FALSE ELSE isGenerating)
                /\ generationError' = (IF c.live THEN "generation failed"
                                       ELSE generationError)
                /\ UNCHANGED <<editorVars, issued, otherVars>>

\* ------------------------------------------------------ the rendered controls

EditorShown == ~StartScreenShown(history, historyIndex)

\* The panel of a tab is rendered when the editor is and the tab is active.
PanelShown(tab) == EditorShown /\ activeTab = tab

\* FilterPanel, TexturePanel, FusionPanel and CropPanel receive isLoading and
\* disable their apply button while it is true.
PanelDisabled == isLoading

SelectFile(size) == StartScreenShown(history, historyIndex) /\ handleLocalFileSelect(size)

ClickGenerate(prompt) ==
    StartScreenShown(history, historyIndex) /\ ~isGenerating /\ handleGenerate(prompt)

ClickStartOver == EditorShown /\ ~isLoading /\ handleStartOver

ClickUndo == EditorShown /\ ~(historyIndex <= 0 \/ isLoading) /\ handleUndo

ClickRedo == EditorShown /\ ~(historyIndex >= Len(history) - 1 \/ isLoading) /\ handleRedo

\* Ctrl+Z / Ctrl+Y (handleKeyDown).
KeyUndo == ~(isLoading \/ currentImageFile = Undefined) /\ handleUndo

KeyRedo == ~(isLoading \/ currentImageFile = Undefined) /\ handleRedo

ClickRegenerate ==
    /\ EditorShown
    /\ ~(lastAction = NoAction \/ historyIndex < 1 \/ isLoading)
    /\ handleRegenerate

ClickTab(tab) == EditorShown /\ ~isLoading /\ selectTab(tab)

\* The spinner overlay covers the image while isLoading.
ClickImage(hotspot) == EditorShown /\ ~isLoading /\ handleImageClick(hotspot)

TypeRetouchPrompt(prompt) == PanelShown("retouch") /\ ~isLoading /\ setRetouchPrompt(prompt)

ClickApplyRetouch ==
    /\ PanelShown("retouch")
    /\ ~(isLoading \/ retouchPrompt = "" \/ retouchHotspot = NoHotspot)
    /\ handleApplyRetouch

ClickApplyAdjustment(prompt) ==
    PanelShown("adjust") /\ ~(isLoading \/ prompt = "") /\ handleApplyAdjustment(prompt)

ClickGetSuggestions ==
    PanelShown("adjust") /\ ~(isLoading \/ isSuggesting) /\ handleGetSuggestions

ClickApplyFilter(prompt) ==
    PanelShown("filters") /\ ~PanelDisabled /\ handleApplyFilter(prompt)

ClickApplyTexture(prompt) ==
    PanelShown("texture") /\ ~PanelDisabled /\ handleApplyTexture(prompt)

ClickApplyFusion(sourceImages, prompt) ==
    PanelShown("fusion") /\ ~PanelDisabled /\ handleApplyFusion(sourceImages, prompt)

ClickRemoveBackground == PanelShown("erase") /\ ~isLoading /\ handleRemoveBackground

DragCrop == EditorShown /\ ~(isLoading \/ activeTab # "crop") /\ setCompletedCrop

ClickApplyCrop == PanelShown("crop") /\ ~PanelDisabled /\ completedCrop /\ handleApplyCrop

\* EditorView and StartScreen as they are mounted (the useState initial values).
InitEditor ==
    /\ history = <<>>
    /\ historyIndex = -1
    /\ isLoading = FALSE
    /\ error = NoError
    /\ activeTab = "adjust"
    /\ lastAction = NoAction
    /\ completedCrop = FALSE
    /\ retouchPrompt = ""
    /\ retouchHotspot = NoHotspot
    /\ isGenerating = FALSE
    /\ generationError = NoError
    /\ calls = <<>>
    /\ issued = 0
    /\ lastActionInput = Undefined
    /\ isTemplateLoading = FALSE

\* App as it is mounted.
InitApp ==
    /\ activeView = "editor"
    /\ isSettingsModalOpen = FALSE
    /\ isHelpModalOpen = FALSE
    /\ notification = FALSE
    /\ editorInitialState = NoTemplate
    /\ selectedTemplate = NoTemplate
    /\ closeTimer = FALSE

\* The configuration modules as they are loaded in a build whose
\* process.env.API_KEY is env, with nothing stored yet.
InitConfig(env) ==
    /\ envApiKey = env
    /\ customApiKey = Absent
    /\ aiInstance = NoInstance
    /\ userApiKey = Absent
    /\ userBaseUrl = Absent
    /\ cachedInstance = NoInstance
    /\ lastConfig = NoConfig
    /\ config = [apiKey |-> "", baseUrl |-> ""]
    /\ localConfig = [apiKey |-> "", baseUrl |-> ""]
    /\ isPanelOpen = FALSE
    /\ client = NoInstance
    /\ testConfig = NoConfig

Init == InitEditor /\ InitApp /\ InitConfig("env-key")

\* The user's actions, through the controls the render enables.
UserAction ==
    \/ \E size \in FileSizes \cup {0} : SelectFile(size)
    \/ \E prompt \in Prompts \cup {""} : ClickGenerate(prompt)
    \/ ClickStartOver
    \/ ClickUndo
    \/ ClickRedo
    \/ KeyUndo
    \/ KeyRedo
    \/ ClickRegenerate
    \/ \E tab \in TABS : ClickTab(tab)
    \/ \E hotspot \in Hotspots : ClickImage(hotspot)
    \/ \E prompt \in Prompts \cup {""} : TypeRetouchPrompt(prompt)
    \/ ClickApplyRetouch
    \/ \E prompt \in Prompts : ClickApplyAdjustment(prompt)
    \/ ClickGetSuggestions
    \/ \E prompt \in Prompts : ClickApplyFilter(prompt)
    \/ \E prompt \in Prompts : ClickApplyTexture(prompt)
    \/ \E imgs \in SourceImageLists, prompt \in Prompts : ClickApplyFusion(imgs, prompt)
    \/ ClickRemoveBackground
    \/ DragCrop
    \/ ClickApplyCrop

\* The completion of the i-th operation in flight.
Completes(i) ==
    \/ \E r \in Responses : EditReturns(i, r)
    \/ \E outcome \in CropOutcomes : CropCallback(i, outcome)
    \/ \E r \in Responses : GenerateReturns(i, r)
    \/ \E ok \in BOOLEAN : SuggestReturns(i, ok)

Next ==
    \/ UserAction
    \/ \E i \in 1..MaxCalls : Completes(i)

Spec == Init /\ [][Next]_vars

\* Every remote call completes and every canvas callback is delivered.
Fairness == \A i \in 1..MaxCalls : WF_vars(Completes(i))

FairSpec == Spec /\ Fairness

\* The handlers EditorView hands to its panels and buttons, called by any of
\* them whatever its own disabled state: the contract of the handlers.
DirectCall ==
    /\ EditorShown
    /\ \/ \E prompt \in Prompts : handleApplyFilter(prompt)
       \/ \E prompt \in Prompts : handleApplyAdjustment(prompt)
       \/ \E prompt \in Prompts : handleApplyTexture(prompt)
       \/ \E imgs \in SourceImageLists, prompt \in Prompts : handleApplyFusion(imgs, prompt)
       \/ handleRemoveBackground
       \/ handleApplyRetouch
       \/ handleRegenerate
       \/ handleApplyCrop

NextDirect == Next \/ DirectCall

SpecDirect == Init /\ [][NextDirect]_vars

\* ------------------------------------------------------- API configuration

\* JavaScript truthiness of a string that may be null, and a || b.
Truthy(a) == a # Absent /\ a # ""
Or(a, b) == IF Truthy(a) THEN a ELSE b

\* String.prototype.trim on the keys a user can type.
Trim(key) == CASE key = " k1 " -> "k1" [] key = " " -> "" [] OTHER -> key

\* What the configuration actions never touch.
nonConfigVars == <<sessionVars, appVars>>

\* geminiService.getApiKey: customKey || process.env.API_KEY || null, with the
\* system key taken first.
getApiKey_EnvFirst == Or(envApiKey, Or(customApiKey, Absent))

\* geminiService.getApiKey: customKey || process.env.API_KEY || null.
getApiKey == Or(customApiKey, Or(envApiKey, Absent))

\* setCustomApiKey that keeps the client it has.
setCustomApiKey_KeepsInstance(key) ==
    /\ customApiKey' = (IF Trim(key) # "" THEN Trim(key) ELSE Absent)
    /\ UNCHANGED <<envApiKey, aiInstance, userApiKey, userBaseUrl, cachedInstance,
                   lastConfig, config, localConfig, isPanelOpen, client, testConfig,
                   nonConfigVars>>

setCustomApiKey(key) ==
    /\ customApiKey' = (IF Trim(key) # "" THEN Trim(key) ELSE Absent)
    /\ aiInstance' = NoInstance
    /\ UNCHANGED <<envApiKey, userApiKey, userBaseUrl, cachedInstance, lastConfig,
                   config, localConfig, isPanelOpen, client, testConfig, nonConfigVars>>

clearCustomApiKey ==
    /\ customApiKey' = Absent
    /\ aiInstance' = NoInstance
    /\ UNCHANGED <<envApiKey, userApiKey, userBaseUrl, cachedInstance, lastConfig,
                   config, localConfig, isPanelOpen, client, testConfig, nonConfigVars>>

\* getGoogleAI: the kept client, or a new one built with getApiKey(); without
\* a key it throws and hands out nothing.
getGoogleAI ==
    IF aiInstance # NoInstance
    THEN /\ client' = aiInstance
         /\ UNCHANGED <<envApiKey, customApiKey, aiInstance, userApiKey, userBaseUrl,
                        cachedInstance, lastConfig, config, localConfig, isPanelOpen,
                        testConfig, nonConfigVars>>
    ELSE IF getApiKey = Absent
    THEN /\ client' = NoInstance
         /\ UNCHANGED <<envApiKey, customApiKey, aiInstance, userApiKey, userBaseUrl,
                        cachedInstance, lastConfig, config, localConfig, isPanelOpen,
                        testConfig, nonConfigVars>>
    ELSE /\ aiInstance' = [apiKey |-> getApiKey, baseUrl |-> Absent]
         /\ client' = aiInstance'
         /\ UNCHANGED <<envApiKey, customApiKey, userApiKey, userBaseUrl,
                        cachedInstance, lastConfig, config, localConfig, isPanelOpen,
                        testConfig, nonConfigVars>>

\* apiKeyManager.getUserApiConfig
getUserApiConfig == [apiKey |-> userApiKey, baseUrl |-> userBaseUrl]

\* useApiConfig.loadConfig, on the configuration stored as key / url.
loadConfig(key, url) == [apiKey |-> Or(key, ""), baseUrl |-> Or(url, "")]

\* The listeners of 'apiConfigUpdated': apiKeyManager drops its cache, the
\* hook reloads config from the store, and the panel's effect on [config]
\* copies it into the text fields.
apiConfigUpdated ==
    /\ cachedInstance' = NoInstance
    /\ lastConfig' = NoConfig
    /\ config' = loadConfig(userApiKey', userBaseUrl')
    /\ localConfig' = config'

\* apiKeyManager.saveUserApiConfig; a field of cfg that is Absent is undefined.
saveUserApiConfig(cfg) ==
    /\ userApiKey' = (IF cfg.apiKey = Absent THEN userApiKey
                      ELSE IF cfg.apiKey # "" THEN cfg.apiKey ELSE Absent)
    /\ userBaseUrl' = (IF cfg.baseUrl = Absent THEN userBaseUrl
                       ELSE IF cfg.baseUrl # "" THEN cfg.baseUrl ELSE Absent)
    /\ apiConfigUpdated

clearUserApiConfig ==
    /\ userApiKey' = Absent
    /\ userBaseUrl' = Absent
    /\ apiConfigUpdated

\* The proxy's finalApiKey and the base URL it settles on for cfg.
finalApiKey(cfg) == Or(userApiKey, Or(cfg.apiKey, ""))
finalBaseUrl(cfg) == Or(userBaseUrl, cfg.baseUrl)

\* new GoogleGenAI(cfg) of apiKeyManager: the cached client when it was built
\* for the same key and base URL, a new one otherwise.
GoogleGenAI(cfg) ==
    /\ IF /\ cachedInstance # NoInstance /\ lastConfig # NoConfig
          /\ lastConfig = [apiKey |-> finalApiKey(cfg), baseUrl |-> finalBaseUrl(cfg)]
       THEN /\ client' = cachedInstance
            /\ UNCHANGED <<cachedInstance, lastConfig>>
       ELSE /\ cachedInstance' = [apiKey |-> Or(finalApiKey(cfg), cfg.apiKey),
                                  baseUrl |-> IF Truthy(userBaseUrl) THEN userBaseUrl
                                              ELSE cfg.baseUrl]
            /\ lastConfig' = [apiKey |-> finalApiKey(cfg), baseUrl |-> finalBaseUrl(cfg)]
            /\ client' = cachedInstance'
    /\ UNCHANGED <<envApiKey, customApiKey, aiInstance, userApiKey, userBaseUrl,
                   config, localConfig, isPanelOpen, testConfig, nonConfigVars>>

\* testApiConnection up to the client it builds: the configuration of that
\* client, or NoConfig when it returns for want of a key.
testApiConnection(apiKey, baseUrl) ==
    LET testApiKey == Or(apiKey, Or(userApiKey', Or(envApiKey, "")))
    IN  testConfig' = IF testApiKey = "" THEN NoConfig
                      ELSE [apiKey |-> testApiKey,
                            baseUrl |-> IF Truthy(baseUrl) THEN baseUrl ELSE Absent]

\* useApiConfig.updateConfig: setConfig, then saveUserApiConfig with every
\* empty field turned into undefined.
updateConfig(updates) ==
    saveUserApiConfig([apiKey |-> Or(updates.apiKey, Absent),
                       baseUrl |-> Or(updates.baseUrl, Absent)])

\* useApiConfig.clearConfig
clearConfig == clearUserApiConfig

\* ApiConfigPanel: typing in the two fields.
setLocalConfig(key, url) ==
    /\ localConfig' = [apiKey |-> key, baseUrl |-> url]
    /\ UNCHANGED <<envApiKey, customApiKey, aiInstance, userApiKey, userBaseUrl,
                   cachedInstance, lastConfig, config, isPanelOpen, client, testConfig,
                   nonConfigVars>>

\* ApiConfigPanel.handleSave
handleSave ==
    /\ updateConfig(localConfig)
    /\ isPanelOpen' = FALSE
    /\ UNCHANGED <<envApiKey, customApiKey, aiInstance, client, testConfig,
                   nonConfigVars>>

\* ApiConfigPanel.handleClear
handleClear ==
    /\ clearConfig
    /\ UNCHANGED <<envApiKey, customApiKey, aiInstance, isPanelOpen, client, testConfig,
                   nonConfigVars>>

\* ApiConfigPanel.handleTest: updateConfig, then the testConnection of the
\* same render, which closes over the hook's config of that render.
handleTest ==
    /\ updateConfig(localConfig)
    /\ testApiConnection(config.apiKey, config.baseUrl)
    /\ UNCHANGED <<envApiKey, customApiKey, aiInstance, isPanelOpen, client,
                   nonConfigVars>>

\* FloatingConfigButton: the button, Ctrl+Shift+K, and the panel's onClose.
setIsPanelOpen(open) ==
    /\ isPanelOpen' = open
    /\ UNCHANGED <<envApiKey, customApiKey, aiInstance, userApiKey, userBaseUrl,
                   cachedInstance, lastConfig, config, localConfig, client, testConfig,
                   nonConfigVars>>

\* The controls of the panel, rendered while it is open.
TypeConfig(key, url) == isPanelOpen /\ setLocalConfig(key, url)

ClickSave == isPanelOpen /\ handleSave

ClickClear == isPanelOpen /\ handleClear

ClickTest ==
    /\ isPanelOpen
    /\ ~(localConfig.apiKey = "" /\ localConfig.baseUrl = "")
    /\ handleTest

OpenPanel == ~isPanelOpen /\ setIsPanelOpen(TRUE)

ClosePanel == isPanelOpen /\ setIsPanelOpen(FALSE)

\* SettingsModal of components/: save and clear of the custom key.
SaveCustomKey(key) == setCustomApiKey(key)

ClearCustomKey == clearCustomApiKey

NextConfig ==
    \/ \E key \in TypedApiKeys : SaveCustomKey(key)
    \/ ClearCustomKey
    \/ getGoogleAI
    \/ \E cfg \in CallerConfigs : GoogleGenAI(cfg)
    \/ \E key \in ApiKeys \cup {""}, url \in BaseUrls \cup {""} : TypeConfig(key, url)
    \/ ClickSave
    \/ ClickClear
    \/ ClickTest
    \/ OpenPanel
    \/ ClosePanel

\* The configuration modules alone, in a build with or without a system key.
InitAnyBuild == \E env \in EnvApiKeys : InitEditor /\ InitApp /\ InitConfig(env)

SpecConfig == InitAnyBuild /\ [][NextConfig]_vars

\* ---------------------------------------------------------------- App shell

\* App declares MainContent inside its own body, so every render of App
\* hands React a new component type: the EditorView below it is unmounted and
\* a fresh one is mounted, with the state of its useState initialisers. The
\* calls of the unmounted instance set the state of nothing. When the fresh
\* instance is given an initialState, its first effect starts the fetch of
\* the template's base image.
MountEditor(view, initialState) ==
    /\ history' = <<>>
    /\ historyIndex' = -1
    /\ error' = NoError
    /\ activeTab' = "adjust"
    /\ lastAction' = NoAction
    /\ completedCrop' = FALSE
    /\ retouchPrompt' = ""
    /\ retouchHotspot' = NoHotspot
    /\ isGenerating' = FALSE
    /\ generationError' = NoError
    /\ lastActionInput' = Undefined
    /\ UNCHANGED issued
    /\ IF view = "editor" /\ initialState # NoTemplate
       THEN /\ isTemplateLoading' = TRUE
            /\ isLoading' = TRUE
            /\ calls' = <<[kind |-> "template", image |-> Undefined,
                           action |-> NoAction,
                           capHistory |-> <<>>, capIndex |-> -1,
                           prevAction |-> NoAction, startIndex |-> -1,
                           live |-> TRUE, seq |-> issued]>>
       ELSE /\ isTemplateLoading' = FALSE
            /\ isLoading' = FALSE
            /\ calls' = <<>>

\* The render of App after one of its handlers: React renders App only when
\* a state of App has changed.
AppRender ==
    IF <<activeView', isSettingsModalOpen', isHelpModalOpen', notification',
         editorInitialState', selectedTemplate'>>
       # <<activeView, isSettingsModalOpen, isHelpModalOpen, notification,
           editorInitialState, selectedTemplate>>
    THEN MountEditor(activeView', editorInitialState')
    ELSE UNCHANGED <<sessionVars, isTemplateLoading>>

\* The second effect of EditorView has work to do: the template is loading
\* and the fetch has delivered an image or an error.
TemplateEffectPending == isTemplateLoading /\ (Len(history) > 0 \/ Truthy(error))

\* No modal covers the page.
NoModal == ~isSettingsModalOpen /\ ~isHelpModalOpen

\* The fetch of the template's base image returns (first effect, try/catch).
TemplateFetchReturns(i, ok) ==
    /\ i \in 1..Len(calls)
    /\ calls[i].kind = "template"
    /\ IF ok
       THEN /\ history' = <<NewFile>>
            /\ historyIndex' = 0
            /\ activeTab' = "adjust"
            /\ UNCHANGED error
       ELSE /\ error' = "template failed"
            /\ UNCHANGED <<history, historyIndex, activeTab>>
    /\ calls' = RemoveAt(calls, i)
    /\ UNCHANGED <<isLoading, lastAction, completedCrop, retouchPrompt, retouchHotspot,
                   isGenerating, generationError, issued, lastActionInput, otherVars>>

\* App.handleTemplateLoaded.
handleTemplateLoaded ==
    /\ editorInitialState' = NoTemplate
    /\ UNCHANGED <<activeView, isSettingsModalOpen, isHelpModalOpen, notification,
                   selectedTemplate, closeTimer, configVars>>

\* The second effect of EditorView: onTemplateLoaded(), then the two flags.
\* When the parent renders, the setters reach an unmounted instance.
TemplateLoadedEffect ==
    /\ TemplateEffectPending
    /\ handleTemplateLoaded
    /\ IF editorInitialState' # editorInitialState
       THEN AppRender
       ELSE /\ isTemplateLoading' = FALSE
            /\ isLoading' = FALSE
            /\ UNCHANGED <<history, historyIndex, error, activeTab, lastAction,
                           completedCrop, retouchPrompt, retouchHotspot, isGenerating,
                           generationError, calls, issued, lastActionInput>>

\* App.handleTemplateSelect.
handleTemplateSelect(template) ==
    /\ selectedTemplate' = template
    /\ activeView' = "template-display"
    /\ UNCHANGED <<isSettingsModalOpen, isHelpModalOpen, notification,
                   editorInitialState, closeTimer, configVars>>
    /\ AppRender

\* App.handleShowTemplateLibrary.
handleShowTemplateLibrary ==
    /\ activeView' = "template-library"
    /\ UNCHANGED <<isSettingsModalOpen, isHelpModalOpen, notification,
                   editorInitialState, selectedTemplate, closeTimer, configVars>>
    /\ AppRender

\* App.handleUseTemplateInEditor.
handleUseTemplateInEditor(template) ==
    /\ editorInitialState' = template
    /\ selectedTemplate' = NoTemplate
    /\ activeView' = "editor"
    /\ UNCHANGED <<isSettingsModalOpen, isHelpModalOpen, notification,
                   closeTimer, configVars>>
    /\ AppRender

\* onBack of the TemplateDisplayPage.
onBack ==
    /\ selectedTemplate' = NoTemplate
    /\ activeView' = "template-library"
    /\ UNCHANGED <<isSettingsModalOpen, isHelpModalOpen, notification,
                   editorInitialState, closeTimer, configVars>>
    /\ AppRender

\* onViewChange of the Header.
onViewChange(view) ==
    /\ IF view # "editor" /\ view # "template-display"
       THEN editorInitialState' = NoTemplate /\ selectedTemplate' = NoTemplate
       ELSE UNCHANGED <<editorInitialState, selectedTemplate>>
    /\ activeView' = view
    /\ UNCHANGED <<isSettingsModalOpen, isHelpModalOpen, notification,
                   closeTimer, configVars>>
    /\ AppRender

\* setIsSettingsModalOpen: onOpenSettings and the onClose of the modal.
setIsSettingsModalOpen(open) ==
    /\ isSettingsModalOpen' = open
    /\ UNCHANGED <<activeView, isHelpModalOpen, notification, editorInitialState,
                   selectedTemplate, closeTimer, configVars>>
    /\ AppRender

\* setIsHelpModalOpen: onOpenHelp and the onClose of the modal.
setIsHelpModalOpen(open) ==
    /\ isHelpModalOpen' = open
    /\ UNCHANGED <<activeView, isSettingsModalOpen, notification, editorInitialState,
                   selectedTemplate, closeTimer, configVars>>
    /\ AppRender

\* handleSave of the SettingsModal: onSave() shows the notification and a
\* timer is set that closes the modal. (The keys it stores are read by no
\* other module.)
SettingsModal_handleSave ==
    /\ notification' = TRUE
    /\ closeTimer' = TRUE
    /\ UNCHANGED <<activeView, isSettingsModalOpen, isHelpModalOpen, editorInitialState,
                   selectedTemplate, configVars>>
    /\ AppRender

\* The timer of handleSave fires: onClose().
CloseTimerFires ==
    /\ ~TemplateEffectPending
    /\ closeTimer
    /\ closeTimer' = FALSE
    /\ isSettingsModalOpen' = FALSE
    /\ UNCHANGED <<activeView, isHelpModalOpen, notification, editorInitialState,
                   selectedTemplate, configVars>>
    /\ AppRender

\* The 3 s timer of the notification effect fires: setNotification(null).
NotificationExpires ==
    /\ ~TemplateEffectPending
    /\ notification
    /\ notification' = FALSE
    /\ UNCHANGED <<activeView, isSettingsModalOpen, isHelpModalOpen, editorInitialState,
                   selectedTemplate, closeTimer, configVars>>
    /\ AppRender

\* The controls of the App shell, as its render offers them. An effect that
\* is pending runs before the next event is handled.
OpenSettings == ~TemplateEffectPending /\ NoModal /\ setIsSettingsModalOpen(TRUE)

CloseSettings == ~TemplateEffectPending /\ isSettingsModalOpen /\ setIsSettingsModalOpen(FALSE)

ClickSaveSettings == ~TemplateEffectPending /\ isSettingsModalOpen /\ SettingsModal_handleSave

OpenHelp == ~TemplateEffectPending /\ NoModal /\ setIsHelpModalOpen(TRUE)

CloseHelp == ~TemplateEffectPending /\ isHelpModalOpen /\ setIsHelpModalOpen(FALSE)

ClickView(view) == ~TemplateEffectPending /\ NoModal /\ onViewChange(view)

ClickTemplate(template) ==
    /\ ~TemplateEffectPending /\ NoModal
    /\ activeView = "template-library"
    /\ handleTemplateSelect(template)

ClickShowTemplateLibrary ==
    /\ ~TemplateEffectPending /\ NoModal
    /\ activeView = "editor" /\ ~isTemplateLoading
    /\ StartScreenShown(history, historyIndex)
    /\ handleShowTemplateLibrary

ClickBack ==
    /\ ~TemplateEffectPending /\ NoModal
    /\ activeView = "template-display" /\ selectedTemplate # NoTemplate
    /\ onBack

ClickUseInEditor ==
    /\ ~TemplateEffectPending /\ NoModal
    /\ activeView = "template-display" /\ selectedTemplate # NoTemplate
    /\ handleUseTemplateInEditor(selectedTemplate)

\* The EditorView is on the page with its controls: not the spinner of a
\* loading template, and no modal over it.
EditorUsable == activeView = "editor" /\ ~isTemplateLoading /\ NoModal

\* The editor's controls inside the App shell.
AppSelectFile(size) == EditorUsable /\ SelectFile(size)

AppApplyAdjustment(prompt) == EditorUsable /\ ClickApplyAdjustment(prompt)

AppUndo == EditorUsable /\ ClickUndo

AppRedo == EditorUsable /\ ClickRedo

AppEditReturns(i, r) == ~TemplateEffectPending /\ EditReturns(i, r)

NextApp ==
    \/ OpenSettings
    \/ CloseSettings
    \/ ClickSaveSettings
    \/ OpenHelp
    \/ CloseHelp
    \/ CloseTimerFires
    \/ NotificationExpires
    \/ \E view \in Views \ {"template-display"} : ClickView(view)
    \/ \E template \in Templates : ClickTemplate(template)
    \/ ClickShowTemplateLibrary
    \/ ClickBack
    \/ ClickUseInEditor
    \/ \E size \in FileSizes : AppSelectFile(size)
    \/ \E prompt \in Prompts : AppApplyAdjustment(prompt)
    \/ AppUndo
    \/ AppRedo
    \/ \E i \in 1..MaxCalls, r \in Responses : AppEditReturns(i, r)
    \/ \E i \in 1..MaxCalls, ok \in BOOLEAN : TemplateFetchReturns(i, ok)
    \/ TemplateLoadedEffect

InitAppShell == \E env \in {"env-key"} : InitEditor /\ InitApp /\ InitConfig(env)

SpecApp == InitAppShell /\ [][NextApp]_vars

\* The fetch of a template returns, the pending effect runs, and a call of
\* the editor completes.
FairnessApp ==
    /\ \A i \in 1..MaxCalls : WF_vars(\E ok \in BOOLEAN : TemplateFetchReturns(i, ok))
    /\ WF_vars(TemplateLoadedEffect)
    /\ \A i \in 1..MaxCalls : WF_vars(\E r \in Responses : AppEditReturns(i, r))

FairSpecApp == SpecApp /\ FairnessApp


\* ------------------------------------------------------------------ claims

EditCallsInFlight == {i \in 1..Len(calls) : calls[i].kind = "edit"}

\* C1: in every reachable state at most one Remote Edit Service call started
\* by an editor edit operation (filter, adjust, texture, fusion, erase,
\* retouch or regenerate) is outstanding.
C1_AtMostOneEditCall == Cardinality(EditCallsInFlight) <= 1

\* C2: in every reachable state in which a remote call started by
\* runGenerativeTask has not yet completed, isLoading is true.
C2_PendingWhileCallOutstanding == EditCallsInFlight # {} => isLoading

\* A call started by handleRegenerate: it left the cursor one position
\* before the cursor of its closure.
IsRegenerate(c) == c.kind = "edit" /\ c.startIndex = c.capIndex - 1

\* The i-th call in flight completes with a decodable image.
EditSucceeds(i) ==
    /\ i <= Len(calls)
    /\ \E r \in Responses : r.ok /\ dataURLtoFile(r.url) = "file" /\ EditReturns(i, r)

\* The i-th call in flight is rejected by the service.
EditFails(i) ==
    /\ i <= Len(calls)
    /\ \E r \in Responses : ~r.ok /\ EditReturns(i, r)

\* The i-th call in flight is rejected, or its result cannot be decoded.
EditFailsOrUndecodable(i) ==
    /\ i <= Len(calls)
    /\ \E r \in Responses : ~(r.ok /\ dataURLtoFile(r.url) = "file") /\ EditReturns(i, r)

\* C3: a regenerate invoked on the last version k >= 1 that succeeds leaves
\* the old versions 0..k-1 followed by the new version: the previous result
\* is discarded, the length is unchanged and the cursor is k.
C3_RegenerateReplacesResult ==
    [][\A i \in 1..MaxCalls :
          (/\ EditSucceeds(i)
           /\ IsRegenerate(calls[i])
           /\ calls[i].capIndex = Len(calls[i].capHistory) - 1)
          => LET k == calls[i].capIndex
                 old == calls[i].capHistory
             IN  /\ Len(history') = Len(old)
                 /\ historyIndex' = k
                 /\ SubSeq(history', 1, k) = SubSeq(old, 1, k)
                 /\ history'[k + 1] # old[k + 1]]_vars

\* C4: every regenerate call sends the version that was the input of the
\* edit recorded in lastAction.
C4_RegenerateSendsActionInput ==
    [][(ClickRegenerate /\ Len(calls') = Len(calls) + 1)
          => calls'[Len(calls')].image = lastActionInput]_vars

\* C5: when the remote call of a generative edit fails, lastAction after the
\* failure is lastAction as it was before that edit was requested.
C5_FailureKeepsLastAction ==
    [][\A i \in 1..MaxCalls :
          EditFails(i) => lastAction' = calls[i].prevAction]_vars

\* C6: when a remote call started by runGenerativeTask fails, or its result
\* cannot be decoded, the versions and the cursor are those of the moment
\* runGenerativeTask started, and error is set to a message.
C6_FailureKeepsHistory ==
    [][\A i \in 1..MaxCalls :
          EditFailsOrUndecodable(i)
          => /\ history' = calls[i].capHistory
             /\ historyIndex' = calls[i].startIndex
             /\ error' # NoError]_vars

\* C7: every operation that sets isLoading to true eventually sets it back
\* to false, when every remote call completes and every canvas callback is
\* delivered.
C7_LoadingEventuallyReset == isLoading ~> ~isLoading

\* An edit request: a call of an apply handler or of handleRegenerate.
EditRequest ==
    \/ \E prompt \in Prompts : handleApplyFilter(prompt)
    \/ \E prompt \in Prompts : handleApplyAdjustment(prompt)
    \/ \E prompt \in Prompts : handleApplyTexture(prompt)
    \/ \E imgs \in SourceImageLists, prompt \in Prompts : handleApplyFusion(imgs, prompt)
    \/ handleRemoveBackground
    \/ handleApplyRetouch
    \/ handleRegenerate
    \/ handleApplyCrop

\* C8: an edit request made while isLoading is true is rejected with no side
\* effects: history, cursor, lastAction, error and isLoading are unchanged
\* and no call is started.
C8_RequestWhileLoadingRejected ==
    [][(isLoading /\ EditRequest)
          => UNCHANGED <<history, historyIndex, lastAction, error, isLoading, calls>>]_vars

\* C9: a response that arrives after the component or session that issued
\* it has been replaced is discarded: it changes neither history, cursor
\* nor lastAction.
C9_LateResponseDiscarded ==
    [][\A i \in 1..MaxCalls :
          (i <= Len(calls) /\ ~calls[i].live /\ Completes(i))
          => UNCHANGED <<history, historyIndex, lastAction>>]_vars

\* A commit: a successful generative edit or a successful crop.
Commits(i) ==
    \/ EditSucceeds(i)
    \/ i <= Len(calls) /\ CropCallback(i, "blob")

\* C10: a commit made when the cursor is i on history h yields h[0..i]
\* followed by the new version, with the cursor on the new last index, so
\* that every version after the old cursor is gone and a redo is a no-op.
C10_CommitTruncatesAndAppends ==
    [][\A i \in 1..MaxCalls :
          Commits(i)
          => /\ Len(history') = historyIndex + 2
             /\ SubSeq(history', 1, historyIndex + 1) = SubSeq(history, 1, historyIndex + 1)
             /\ history'[Len(history')] \notin {history[k] : k \in 1..Len(history)}
             /\ historyIndex' = Len(history') - 1]_vars

\* C11: in every reachable state historyIndex is -1 when history is empty
\* and lies in [0, history.length - 1] when history is not empty.
C11_CursorInRange ==
    IF Len(history) = 0
    THEN historyIndex = -1
    ELSE historyIndex >= 0 /\ historyIndex <= Len(history) - 1

\* C11 witness: a regenerate has moved the cursor off the last version and
\* its call is still outstanding.
C11_Witness ==
    /\ Len(history) >= 2
    /\ historyIndex = Len(history) - 2
    /\ \E i \in 1..Len(calls) : IsRegenerate(calls[i]) /\ calls[i].capHistory = history

\* A step that loads a base image: a file is selected, or a text-to-image
\* result is handed to handleLocalImageGenerated.
LoadsBaseImage ==
    \/ \E size \in FileSizes : handleLocalFileSelect(size)
    \/ \E i \in 1..MaxCalls, r \in Responses : GenerateReturns(i, r)

\* C12: between loading a base image and the next load or start-over,
\* history[0] is that base image: no edit, crop, undo, redo or regenerate,
\* successful or failed, changes the first version.
C12_BaseImageKept ==
    [][(Len(history) > 0 /\ Len(history') > 0 /\ ~LoadsBaseImage)
          => history'[1] = history[1]]_vars

\* The cursor handleUndo leaves when called with cursor i.
undoCursor(i) == IF i > 0 THEN i - 1 ELSE i

\* The cursor handleRedo leaves when called with cursor i on history h.
redoCursor(h, i) == IF i < Len(h) - 1 THEN i + 1 ELSE i

\* C13: for every state with 0 < cursor, undo followed immediately by redo
\* restores the same cursor, the same current version and the same version
\* list; for every state with cursor < length - 1, redo followed by undo does
\* the same.  Every undo and every redo step moves the cursor as undoCursor
\* and redoCursor say and keeps the list, and the cursor it leaves is one
\* from which the opposite move leads back.
C13_UndoRedoRoundTrip ==
    [][/\ (handleUndo /\ historyIndex > 0)
            => /\ history' = history
               /\ historyIndex' = undoCursor(historyIndex)
               /\ redoCursor(history', historyIndex') = historyIndex
               /\ At(history', redoCursor(history', historyIndex')) = currentImageFile
       /\ (handleRedo /\ historyIndex < Len(history) - 1)
            => /\ history' = history
               /\ historyIndex' = redoCursor(history, historyIndex)
               /\ undoCursor(historyIndex') = historyIndex
               /\ At(history', undoCursor(historyIndex')) = currentImageFile]_vars

\* C13 witness: a state with room on both sides of the cursor in which undo
\* and redo are accepted.
C13_Witness ==
    /\ Len(history) >= 3
    /\ historyIndex = 1
    /\ ~isLoading

\* C14: undo and redo change only the cursor, by exactly one position: the
\* version list, lastAction and everything else are unchanged; undo at
\* cursor <= 0 and redo at cursor >= length - 1 change nothing at all.
C14_UndoRedoFrame ==
    [][/\ handleUndo
            => /\ historyIndex' = (IF historyIndex <= 0 THEN historyIndex
                                   ELSE historyIndex - 1)
               /\ UNCHANGED <<history, lastAction, isLoading, error, activeTab,
                              completedCrop, retouchPrompt, retouchHotspot, calls>>
       /\ handleRedo
            => /\ historyIndex' = (IF historyIndex >= Len(history) - 1 THEN historyIndex
                                   ELSE historyIndex + 1)
               /\ UNCHANGED <<history, lastAction, isLoading, error, activeTab,
                              completedCrop, retouchPrompt, retouchHotspot, calls>>]_vars

\* C14 witness: two undos have moved the cursor from the last of three
\* versions to the first, and nothing is in flight.
C14_Witness ==
    /\ Len(history) = 3
    /\ historyIndex = 0
    /\ lastAction # NoAction
    /\ ~isLoading
    /\ calls = <<>>

\* C15: start-over from any state leaves history empty, cursor -1 and
\* lastAction cleared; afterwards current() is none and any undo or redo is
\* a no-op: with an empty history no handleUndo or handleRedo step changes
\* the state.
C15_StartOverResets ==
    /\ [][handleStartOver
             => /\ history' = <<>>
                /\ historyIndex' = -1
                /\ lastAction' = NoAction
                /\ At(history', historyIndex') = Undefined
                /\ undoCursor(historyIndex') = historyIndex'
                /\ redoCursor(history', historyIndex') = historyIndex']_vars
    /\ [](Len(history) = 0 => ~ENABLED <<handleUndo \/ handleRedo>>_vars)

\* C15 witness: start-over has been performed on a session that had
\* recorded an edit: the history is empty although calls were issued, and
\* the start screen is idle.
C15_Witness ==
    /\ Len(history) = 0
    /\ historyIndex = -1
    /\ lastAction = NoAction
    /\ issued > 0
    /\ calls = <<>>
    /\ ~isGenerating
    /\ generationError = NoError
    /\ error = NoError

\* C16: regenerate invoked with no recorded lastAction, or with cursor < 1,
\* is rejected: history, cursor, lastAction and isLoading are unchanged and
\* no remote call is started.  In every reachable state with no recorded
\* action or with cursor < 1, no handleRegenerate step changes any of them.
C16_RegenerateRejected ==
    (lastAction = NoAction \/ historyIndex < 1)
        => ~ENABLED <<handleRegenerate>>_<<history, historyIndex, lastAction, isLoading, calls>>

\* C16 witness: the editor is shown, nothing is pending and an action is
\* recorded, but the cursor is on the first version.
C16_Witness ==
    /\ EditorShown
    /\ ~isLoading
    /\ lastAction # NoAction
    /\ historyIndex = 0

\* A request of a generative edit that records its descriptor in lastAction.
RecordsAction ==
    \/ \E prompt \in Prompts : handleApplyFilter(prompt)
    \/ \E prompt \in Prompts : handleApplyAdjustment(prompt)
    \/ \E prompt \in Prompts : handleApplyTexture(prompt)
    \/ \E imgs \in SourceImageLists, prompt \in Prompts : handleApplyFusion(imgs, prompt)
    \/ handleRemoveBackground
    \/ handleApplyRetouch

\* C17: a successful crop commits the cropped version and clears lastAction,
\* so regenerate is rejected in every state whose most recently committed
\* version came from a crop, until a new generative edit is requested: the
\* crop commit leaves lastAction null on a new last version, only the
\* request of a generative edit makes lastAction non-null again, and while
\* lastAction is null no handleRegenerate step changes the state.
C17_CropDisablesRegenerate ==
    /\ [][/\ (\E i \in 1..Len(calls) : calls[i].kind = "crop" /\ CropCallback(i, "blob"))
               => /\ lastAction' = NoAction
                  /\ historyIndex' = Len(history') - 1
                  /\ currentImageFile' \notin {history[k] : k \in 1..Len(history)}
          /\ (lastAction = NoAction /\ lastAction' # NoAction) => RecordsAction]_vars
    /\ [](lastAction = NoAction => ~ENABLED <<handleRegenerate>>_vars)

\* C17 witness: a crop made after a generative edit has been committed: the
\* cursor is on the last of three versions, nothing is pending and no
\* action is recorded.
C17_Witness ==
    /\ Len(history) = 3
    /\ historyIndex = 2
    /\ lastAction = NoAction
    /\ activeTab = "crop"
    /\ ~completedCrop
    /\ ~isLoading
    /\ calls = <<>>
    /\ error = NoError

\* C18: every change of the current version (commit, undo, redo, regenerate,
\* new base image, start-over) leaves the stored hotspot cleared, so that a
\* retouch call never carries a hotspot selected on another version.
C18_HotspotClearedOnVersionChange ==
    [][currentImageFile' # currentImageFile => retouchHotspot' = NoHotspot]_vars

\* C19: each accepted edit operation starts exactly one Remote Edit Service
\* call; after a failure no further call is started until the user requests
\* another operation (no automatic retry): an accepted request appends one
\* call to the calls in flight, a failed call is removed and none is started
\* in its place, and a call is started only in a step of a user action.
C19_OneCallNoRetry ==
    [][/\ (RecordsAction \/ handleRegenerate)
            => /\ Len(calls') = Len(calls) + 1
               /\ SubSeq(calls', 1, Len(calls)) = calls
               /\ calls'[Len(calls')].kind = "edit"
               /\ issued' = issued + 1
       /\ \A i \in 1..MaxCalls :
             EditFailsOrUndecodable(i)
             => /\ calls' = RemoveAt(calls, i)
                /\ issued' = issued
       /\ issued' # issued => (issued' = issued + 1 /\ UserAction)]_vars

\* C19 witness: the only call ever started has failed; nothing is in flight.
C19_Witness ==
    /\ error = "remote failure"
    /\ lastAction # NoAction
    /\ issued = 1
    /\ calls = <<>>
    /\ ~isLoading

\* The i-th call in flight is the only one, and nothing has happened since
\* it was requested: no operation was started after it, the flag is still
\* set and the history and the cursor are as the request left them.
NoInterveningOperation(i) ==
    /\ Len(calls) = 1
    /\ i = 1
    /\ calls[i].seq = issued
    /\ isLoading
    /\ history = calls[i].capHistory
    /\ historyIndex = calls[i].startIndex

\* C20: after a generative edit succeeds with no intervening operation,
\* lastAction equals that edit's descriptor (kind, prompt, and hotspot or
\* auxiliary images) and current() is the version that edit produced.
C20_SuccessRecordsAction ==
    [][\A i \in 1..MaxCalls :
          (NoInterveningOperation(i) /\ EditSucceeds(i))
          => /\ lastAction' = calls[i].action
             /\ lastAction' # NoAction
             /\ historyIndex' = Len(history') - 1
             /\ currentImageFile' \notin {history[k] : k \in 1..Len(history)}
             /\ currentImageFile' # Undefined]_vars

\* C20 witness: a retouch has succeeded, the last of three versions is its
\* result: its descriptor, with the hotspot, is the recorded action and the
\* cursor is on that version.
C20_Witness ==
    /\ Len(history) = 3
    /\ historyIndex = 2
    /\ lastAction.type = "retouch"
    /\ lastAction.hotspot \in Hotspots
    /\ ~isLoading
    /\ calls = <<>>
    /\ error = NoError

C22_SaveStoresConfig ==
    [][(ClickSave \/ ClickTest)
          => /\ getUserApiConfig'.apiKey = (IF localConfig.apiKey = "" THEN Absent
                                            ELSE localConfig.apiKey)
             /\ getUserApiConfig'.baseUrl = (IF localConfig.baseUrl = "" THEN Absent
                                             ELSE localConfig.baseUrl)]_vars

C30_TestUsesPanelFields ==
    [][ClickTest
          => /\ localConfig.apiKey # ""
                  => (testConfig' # NoConfig /\ testConfig'.apiKey = localConfig.apiKey)
             /\ (localConfig.baseUrl # "" /\ testConfig' # NoConfig)
                  => testConfig'.baseUrl = localConfig.baseUrl]_vars

\* C23: from the moment a generative edit or a regenerate starts until its
\* call completes, no error is shown (error is null, or the empty string
\* that shows nothing) and the retouch hotspot is null.
C23_ClearedDuringCall ==
    (\E i \in EditCallsInFlight : calls[i].live)
        => (error \in {NoError, ""} /\ retouchHotspot = NoHotspot)

\* C24: loading a new base image, by selecting a file within the size limit
\* or by a decodable text-to-image result, from any state yields a history of
\* that image alone, cursor 0, lastAction cleared and error cleared.
C24_LoadSeedsHistory ==
    [][/\ \A size \in FileSizes :
            (handleLocalFileSelect(size) /\ size <= 15 * 1024 * 1024)
                => /\ Len(history') = 1 /\ historyIndex' = 0
                   /\ currentImageFile' \notin {history[k] : k \in 1..Len(history)}
                   /\ currentImageFile' # Undefined
                   /\ lastAction' = NoAction
                   /\ error' = NoError
       /\ \A i \in 1..MaxCalls, r \in Responses :
            (GenerateReturns(i, r) /\ r.ok /\ dataURLtoFile(r.url) = "file")
                => /\ Len(history') = 1 /\ historyIndex' = 0
                   /\ currentImageFile' \notin {history[k] : k \in 1..Len(history)}
                   /\ currentImageFile' # Undefined
                   /\ lastAction' = NoAction
                   /\ error' = NoError]_vars

\* C24 witness: a text-to-image result has been loaded over an editing
\* session that had an edit outstanding: one version, nothing recorded, no
\* error, and the old session's call still in flight.
C24_Witness ==
    /\ Len(history) = 1 /\ historyIndex = 0
    /\ lastAction = NoAction /\ error = NoError
    /\ \E i \in 1..Len(calls) :
          /\ calls[i].kind = "edit" /\ ~calls[i].live
          /\ calls[i].action # NoAction
          /\ history[1] \notin {calls[i].capHistory[k] : k \in 1..Len(calls[i].capHistory)}

\* C25: when a template is opened in the editor and the fetch of its base
\* image succeeds, the editor eventually holds history = [template image],
\* cursor 0, lastAction cleared, with isTemplateLoading and isLoading both
\* false; when the fetch fails, it eventually holds an empty history, a set
\* error, and both loading flags false.
C25_TemplateLoads ==
    /\ \A f \in 1..(MaxVersions * (MaxCalls + 1) + 1) :
           (isTemplateLoading /\ history = <<f>>)
               ~> (/\ history = <<f>>
                   /\ historyIndex = 0
                   /\ lastAction = NoAction
                   /\ ~isTemplateLoading
                   /\ ~isLoading)
    /\ (isTemplateLoading /\ Truthy(error))
           ~> (/\ history = <<>>
               /\ Truthy(error)
               /\ ~isTemplateLoading
               /\ ~isLoading)

\* C28: opening or closing the settings or help modal, and the appearance or
\* expiry of the save notification, leave the editor's history, cursor and
\* lastAction unchanged.
C28_ShellLeavesSession ==
    [][(\/ OpenSettings
        \/ CloseSettings
        \/ OpenHelp
        \/ CloseHelp
        \/ ClickSaveSettings
        \/ CloseTimerFires
        \/ NotificationExpires)
           => UNCHANGED <<history, historyIndex, lastAction>>]_vars

\* C26: after a regenerate whose remote call fails, the version list is the
\* one of the moment regenerate was requested, the cursor is one position
\* before where it was then, and one redo (which the editor then offers)
\* makes the previous result current again.
C26_FailedRegenerate ==
    [][\A i \in 1..MaxCalls, r \in Responses :
          (/\ EditReturns(i, r)
           /\ calls[i].startIndex = calls[i].capIndex - 1
           /\ ~(r.ok /\ dataURLtoFile(r.url) = "file"))
              => /\ history' = calls[i].capHistory
                 /\ historyIndex' = calls[i].capIndex - 1
                 /\ ~isLoading'
                 /\ historyIndex' < Len(history') - 1
                 /\ At(history', historyIndex' + 1)
                        = At(calls[i].capHistory, calls[i].capIndex)]_vars

\* C27: selecting a file larger than 15 * 1024 * 1024 bytes is rejected
\* before any network call: history, cursor and lastAction are unchanged, no
\* call is started and error is set; a file of exactly 15 * 1024 * 1024 bytes
\* is accepted and becomes the only version.
C27_SizeLimit ==
    [][\A size \in FileSizes :
          handleLocalFileSelect(size)
              => IF size > 15 * 1024 * 1024
                 THEN /\ UNCHANGED <<history, historyIndex, lastAction, calls, issued>>
                      /\ error' \notin {NoError, ""}
                 ELSE /\ size = 15 * 1024 * 1024
                      /\ Len(history') = 1 /\ historyIndex' = 0
                      /\ currentImageFile' # Undefined
                      /\ error' = NoError]_vars

\* C27 witness: a file above the limit has been refused on the start screen:
\* the error is shown, there is still no version and nothing recorded, and
\* the only call ever started is a text-to-image call of the start screen.
C27_Witness ==
    /\ error = "file too large"
    /\ history = <<>> /\ historyIndex = -1
    /\ lastAction = NoAction
    /\ issued = 1 /\ Len(calls) = 1 /\ calls[1].kind = "t2i"

====
